---- MODULE Spec2Model ----
(***************************************************************************)
(* Model of tgcf/live.py: the live forwarder with album (media group)      *)
(* support.  The two Telethon handlers on_new_message and on_album are     *)
(* state machines whose suspension points are the awaited transport calls  *)
(* (send_message, forward_messages, send_file, forward_to).  Every         *)
(* transport call is issued in one step and returns (normally or by        *)
(* raising) in a later one.  `calls` records the calls the running handler *)
(* invocation has issued.                                                  *)
(***************************************************************************)
EXTENDS Integers, Sequences, FiniteSets, TLC

\* ------------------------------------------------------------------ bounds
\* longest album whose items are drawn freely
MaxItems == 2
\* longest photo-only album (must exceed BatchSize to see chunking)
MaxPhotos == 12
\* most transport failures injected into one handler invocation
MaxFailures == 2

\* ------------------------------------------------------- program constants
\* files[i : i + 10], i += 10
BatchSize == 10

\* Python's None, as a caption / as a chat without routing entry
None == "None"

\* ------------------------------------------------------------- chat handles
\* numeric chat ids
SRC == -1001
DestA == -1002
DestB == -1003

\* --------------------------------------------------------- chat identifiers
\* identifiers of config.from_to, as character sequences so that strip,
\* startswith, isdigit and int are computed
SrcUser == <<"@", "s">>
SrcId == <<"-", "1", "0", "0", "1">>
DestAUser == <<"@", "a", " ">>
DestBId == <<"-", "1", "0", "0", "3">>

TmePrefix == <<"t", ".", "m", "e", "/">>
HttpsTmePrefix == <<"h", "t", "t", "p", "s", ":", "/", "/", "t", ".", "m", "e", "/">>
Minus100 == <<"-", "1", "0", "0">>
Digits == <<"0", "1", "2", "3", "4", "5", "6", "7", "8", "9">>

\* config.from_to, a dict in insertion order: an entry whose destination
\* list is empty, an entry with one destination, and two entries whose source
\* identifiers name the same chat
FromToConfs ==
    { <<[src |-> SrcUser, dests |-> <<>>]>>,
      <<[src |-> SrcUser, dests |-> <<DestAUser>>]>>,
      <<[src |-> SrcUser, dests |-> <<DestAUser>>],
        [src |-> SrcId, dests |-> <<DestAUser, DestBId>>]>> }

\* client.get_entity(identifier).id: the chat a username resolves to
get_entity(identifier) ==
    CASE identifier = <<"@", "s">> -> SRC
      [] identifier = <<"@", "a">> -> DestA
      [] identifier = <<"@", "b">> -> DestB

\* ------------------------------------------------------------------- media
\* content types, as character sequences so that startswith is computed
VideoMp4 == <<"v", "i", "d", "e", "o", "/", "m", "p", "4">>
AppPdf == <<"a", "p", "p", "l", "i", "c", "a", "t", "i", "o", "n", "/", "p", "d", "f">>
VideoPrefix == <<"v", "i", "d", "e", "o", "/">>

\* Message.media: absent, a photo, or a document with its mime_type
NoMedia == [tag |-> "none", mime_type |-> <<>>, file_id |-> 0]

Photo(id) == [tag |-> "photo", mime_type |-> <<>>, file_id |-> id]

Document(mt, id) == [tag |-> "document", mime_type |-> mt, file_id |-> id]

\* the kinds of attachment an incoming message is drawn with
MediaShapes == {"none", "photo", "video", "pdf"}

MediaOf(shape, id) ==
    CASE shape = "none" -> NoMedia
      [] shape = "photo" -> Photo(id)
      [] shape = "video" -> Document(VideoMp4, id)
      [] shape = "pdf" -> Document(AppPdf, id)

\* message texts: the empty string, or a text that names the message; the
\* first two messages of an event are the ones drawn with a text
Texts == <<"t1", "t2">>

TextOf(has, id) == IF has /\ id <= Len(Texts) THEN Texts[id] ELSE ""

\* telethon Message: id, grouped_id, message (text), media
Msg(id, gid, shape, has) ==
    [id |-> id, grouped_id |-> gid, message |-> TextOf(has, id), media |-> MediaOf(shape, id)]

GroupIds == {"g1"}

\* messages a NewMessage event can carry
SingleMessages ==
    {Msg(1, g, s, h) : g \in GroupIds \cup {None}, s \in MediaShapes, h \in BOOLEAN}

\* Album.Event.messages: up to MaxItems items drawn freely, a mixed album of
\* three items (captioned on its first item or not at all), or a longer
\* photo-only album (captioned likewise)
FreeAlbums ==
    UNION {{[p \in 1..n |-> Msg(p, "g1", ss[p], hs[p])] :
               ss \in [1..n -> MediaShapes], hs \in [1..n -> BOOLEAN]} : n \in 1..MaxItems}

PhotoAlbums ==
    {[p \in 1..n |-> Msg(p, "g1", "photo", h /\ p = 1)] :
        n \in BatchSize..MaxPhotos, h \in BOOLEAN}

MixedShapes == {<<"photo", "photo", "pdf">>, <<"photo", "pdf", "photo">>}

MixedAlbums ==
    {[p \in 1..Len(ss) |-> Msg(p, "g1", ss[p], h /\ p = 1)] : ss \in MixedShapes, h \in BOOLEAN}

Albums == FreeAlbums \cup MixedAlbums \cup PhotoAlbums

\* --------------------------------------------------------------- variables
VARIABLES
    copy_mode,      \* attach_handlers(copy_mode=...)
    forward_mode,   \* attach_handlers(forward_mode=...)
    from_to_conf,   \* config.from_to: source identifier -> destination identifiers
    from_to_ids,    \* attach_handlers(from_to_ids=...): source -> destinations
    handler,        \* the handler whose invocation is (or was last) running
    event,          \* the event it was invoked with
    pc,             \* where that invocation stands
    dests,          \* on_*: dests
    d_idx,          \* on_*: position of `for d in dests`
    caption,        \* on_album: caption
    buckets,        \* _send_album_copy: buckets, in insertion order
    b_idx,          \* _send_album_copy: position of `for kind, bucket in buckets.items()`
    i,              \* _send_album_copy: i
    cap,            \* _send_album_copy / fallback: cap
    idx,            \* on_album fallback: position of `for idx, m in enumerate(items)`
    calls,          \* transport calls issued by this invocation, in order
    nfail,          \* transport failures injected into this invocation
    prev            \* a failure-free invocation kept for comparison (SpecReplay)

vars ==
    <<copy_mode, forward_mode, from_to_conf, from_to_ids, handler, event, pc, dests,
      d_idx, caption, buckets, b_idx, i, cap, idx, calls, nfail, prev>>

config == <<copy_mode, forward_mode, from_to_conf, from_to_ids>>

NoEvent == [chat_id |-> SRC, messages |-> <<>>]

NoSnapshot == [handler |-> "none", event |-> NoEvent, calls |-> <<>>]

albumLocals == <<buckets, b_idx, i, cap, idx>>

\* ------------------------------------------------------------ pure helpers
\* str.startswith
StartsWith(s, prefix) ==
    /\ Len(s) >= Len(prefix)
    /\ \A k \in 1..Len(prefix) : s[k] = prefix[k]

\* _bucket_kind without the photo test: the mime type alone decides
_bucket_kind_mime(m) ==
    LET mt == IF m.media.tag = "document" THEN m.media.mime_type ELSE <<>>
    IN  IF StartsWith(mt, VideoPrefix) THEN "video" ELSE "doc"

\* _bucket_kind(m)
_bucket_kind(m) ==
    IF m.media.tag = "photo"
    THEN "photo"
    ELSE LET mt == IF m.media.tag = "document" THEN m.media.mime_type ELSE <<>>
         IN  IF StartsWith(mt, VideoPrefix) THEN "video" ELSE "doc"

\* getattr(m, "media", None) is truthy
HasMedia(m) == m.media.tag # "none"

\* a mapping that lists the newest key first
SetDefaultAppend_front(bs, kind, m) ==
    IF \E k \in 1..Len(bs) : bs[k].kind = kind
    THEN LET at == CHOOSE k \in 1..Len(bs) : bs[k].kind = kind
         IN  SubSeq(bs, 1, at - 1)
                 \o <<[kind |-> kind, bucket |-> Append(bs[at].bucket, m)]>>
                 \o SubSeq(bs, at + 1, Len(bs))
    ELSE <<[kind |-> kind, bucket |-> <<m>>]>> \o bs

\* buckets.setdefault(kind, []).append(m) on an insertion-ordered dict
SetDefaultAppend(bs, kind, m) ==
    IF \E k \in 1..Len(bs) : bs[k].kind = kind
    THEN LET at == CHOOSE k \in 1..Len(bs) : bs[k].kind = kind
         IN  SubSeq(bs, 1, at - 1)
                 \o <<[kind |-> kind, bucket |-> Append(bs[at].bucket, m)]>>
                 \o SubSeq(bs, at + 1, Len(bs))
    ELSE Append(bs, [kind |-> kind, bucket |-> <<m>>])

\* the bucket loop of _send_album_copy over items[1..n]; the dict after
\* n - 1 items is bound as a value (bs) before the n-th item is added
RECURSIVE BucketsUpTo(_, _)
BucketsUpTo(items, n) ==
    IF n = 0
    THEN <<>>
    ELSE LET m == items[n]
         IN  CHOOSE after \in
                 {IF HasMedia(m) THEN SetDefaultAppend(bs, _bucket_kind(m), m) ELSE bs :
                     bs \in {BucketsUpTo(items, n - 1)}} : TRUE

MakeBuckets(items) == BucketsUpTo(items, Len(items))

\* files = [m.media for m in bucket if getattr(m, "media", None)]
RECURSIVE FilesOf(_)
FilesOf(bucket) ==
    IF bucket = <<>>
    THEN <<>>
    ELSE LET rest == FilesOf(Tail(bucket))
         IN  IF HasMedia(Head(bucket)) THEN <<Head(bucket).media>> \o rest ELSE rest

\* files[i - 1 : i + 10] past the first chunk: a slice that starts one item early
Slice_overlap(files, from) ==
    SubSeq(files, IF from > 0 THEN from ELSE 1,
           IF from + BatchSize < Len(files) THEN from + BatchSize ELSE Len(files))

\* files[i : i + 11]: a slice one item too long
Slice_long(files, from) ==
    SubSeq(files, from + 1,
           IF from + BatchSize + 1 < Len(files) THEN from + BatchSize + 1 ELSE Len(files))

\* files[i : i + 10]
Slice(files, from) ==
    SubSeq(files, from + 1, IF from + BatchSize < Len(files) THEN from + BatchSize ELSE Len(files))

\* str.lstrip(ch)
RECURSIVE LStrip(_, _)
LStrip(str, ch) == IF str # <<>> /\ Head(str) = ch THEN LStrip(Tail(str), ch) ELSE str

\* str.rstrip(ch)
RECURSIVE RStrip(_, _)
RStrip(str, ch) ==
    IF str # <<>> /\ str[Len(str)] = ch THEN RStrip(SubSeq(str, 1, Len(str) - 1), ch) ELSE str

\* str.strip()
Strip(str) == RStrip(LStrip(str, " "), " ")

\* str.isdigit()
IsDigit(str) == str # <<>> /\ \A k \in 1..Len(str) : \E v \in 1..10 : Digits[v] = str[k]

\* int(str) of an optional minus sign and decimal digits
RECURSIVE ParseNat(_)
ParseNat(str) ==
    IF str = <<>>
    THEN 0
    ELSE 10 * ParseNat(SubSeq(str, 1, Len(str) - 1))
             + (CHOOSE v \in 1..10 : Digits[v] = str[Len(str)]) - 1

ParseInt(str) == IF Head(str) = "-" THEN 0 - ParseNat(Tail(str)) ELSE ParseNat(str)

\* _resolve_chat_id(identifier)
_resolve_chat_id(identifier) ==
    LET id == Strip(identifier)
    IN  IF StartsWith(id, TmePrefix) \/ StartsWith(id, HttpsTmePrefix)
        THEN get_entity(id)
        ELSE IF StartsWith(id, Minus100) \/ IsDigit(LStrip(id, "-"))
             THEN ParseInt(id)
             ELSE IF StartsWith(id, <<"@">>)
                  THEN get_entity(id)
                  ELSE get_entity(id)

\* the inner loop: out[src_id].append(await _resolve_chat_id(d)) for d in dests
ResolveAll(ids) == [k \in 1..Len(ids) |-> _resolve_chat_id(ids[k])]

\* out[k] = v on a dict
Put(out, k, v) == [x \in (DOMAIN out) \cup {k} |-> IF x = k THEN v ELSE out[x]]

\* the list of a key is not reset (out.setdefault(src_id, [])): the entries of
\* a configuration are added to the destinations already resolved for the key
RECURSIVE _resolve_from_to_merge(_)
_resolve_from_to_merge(conf) ==
    IF conf = <<>>
    THEN <<>>
    ELSE LET n == Len(conf)
             last == conf[n]
             out == _resolve_from_to_merge(SubSeq(conf, 1, n - 1))
             k == _resolve_chat_id(last.src)
         IN  Put(out, k, (IF k \in DOMAIN out THEN out[k] ELSE <<>>) \o ResolveAll(last.dests))

\* _resolve_from_to(from_to_conf): for each entry in order, out[src_id] = []
\* and the resolved destinations appended to it
RECURSIVE _resolve_from_to(_)
_resolve_from_to(conf) ==
    IF conf = <<>>
    THEN <<>>
    ELSE LET n == Len(conf)
             last == conf[n]
         IN  Put(_resolve_from_to(SubSeq(conf, 1, n - 1)),
                 _resolve_chat_id(last.src), ResolveAll(last.dests))

\* next((m.message for m in items if m.message), None)
RECURSIVE FirstText(_)
FirstText(items) ==
    IF items = <<>>
    THEN None
    ELSE IF Head(items).message # "" THEN Head(items).message ELSE FirstText(Tail(items))

\* from_to_ids.get(chat, [])
DestsFor(chat) == IF chat \in DOMAIN from_to_ids THEN from_to_ids[chat] ELSE <<>>

\* ---------------------------------------------------------- transport calls
\* one awaited call on the Telethon client, with the arguments it was given
Call(op, d, file, is_list, cp, text, ids, lp) ==
    [op |-> op, dest |-> d, file |-> file, is_list |-> is_list, caption |-> cp,
     message |-> text, msg_ids |-> ids, link_preview |-> lp, result |-> "pending"]

\* client.send_message(dest, message=msg.message or "", file=msg.media,
\*                     link_preview=msg.media is None)
SendMessageCall(d, msg) ==
    Call("send_message", d, <<msg.media>>, FALSE, None, msg.message, <<msg.id>>,
         msg.media = NoMedia)

\* client.forward_messages(dest, msg.id, msg.chat_id)
ForwardMessagesCall(d, msg) ==
    Call("forward_messages", d, <<>>, FALSE, None, "", <<msg.id>>, FALSE)

\* client.send_file(dest, part, caption=cap, supports_streaming=True)
SendBatchCall(d, part, cp) == Call("send_file", d, part, TRUE, cp, "", <<>>, FALSE)

\* client.send_file(d, m.media, caption=..., supports_streaming=True)
SendItemCall(d, m, cp) == Call("send_file", d, <<m.media>>, FALSE, cp, "", <<m.id>>, FALSE)

\* event.forward_to(d): forwards every message of the album
ForwardAlbumCall(d, items) ==
    Call("forward_to", d, <<>>, FALSE, None, "", [k \in 1..Len(items) |-> items[k].id], FALSE)

Issue(c) == calls' = Append(calls, c)

Settle(res) == calls' = [calls EXCEPT ![Len(calls)].result = res]

\* ------------------------------------------------------------------- Init
Init ==
    /\ copy_mode \in BOOLEAN
    /\ forward_mode \in BOOLEAN
    /\ from_to_conf \in FromToConfs
    /\ from_to_ids = _resolve_from_to(from_to_conf)
    /\ handler = "none"
    /\ event = NoEvent
    /\ pc = "idle"
    /\ dests = <<>>
    /\ d_idx = 0
    /\ caption = None
    /\ buckets = <<>>
    /\ b_idx = 0
    /\ i = 0
    /\ cap = None
    /\ idx = 0
    /\ calls = <<>>
    /\ nfail = 0
    /\ prev = NoSnapshot

\* -------------------------------------------------------- transport results
\* an awaited call returns normally or raises; at most MaxFailures raise
Outcomes == {"ok", "error"}

Returns(res) ==
    /\ res \in Outcomes
    /\ res = "error" => nfail < MaxFailures
    /\ nfail' = IF res = "error" THEN nfail + 1 ELSE nfail
    /\ Settle(res)

\* the handler returns to the dispatcher
HandlerReturns == pc' = "done"

\* the fallback send awaited outside any try: its exception is not caught
ExceptClause_bare(site) ==
    CASE site = "single" -> "log"
      [] site = "batch" -> "fallback"
      [] site = "forward" -> "fallback"
      [] site = "item" -> "none"

\* the except clause that encloses each awaited call: `except Exception` of
\* on_new_message (208), of on_album (234, the fallback) and of the fallback
\* loop (241); "none" would be a call awaited outside any try
ExceptClause(site) ==
    CASE site = "single" -> "log"
      [] site = "batch" -> "fallback"
      [] site = "forward" -> "fallback"
      [] site = "item" -> "log"

\* a call at `site` has raised and no except clause encloses it: the
\* exception leaves the handler
Escapes(site, res) == res = "error" /\ ExceptClause(site) = "none"

HandlerRaises == pc' = "raised"

ResetAlbumLocals ==
    /\ buckets' = <<>>
    /\ b_idx' = 0
    /\ i' = 0
    /\ cap' = None
    /\ idx' = 0

\* --------------------------------------------------------- on_new_message
\* on_new_message without the grouped_id test
on_new_message_ungrouped(msg) ==
    /\ pc = "idle"
    /\ handler' = "on_new_message"
    /\ event' = [chat_id |-> SRC, messages |-> <<msg>>]
    /\ dests' = DestsFor(SRC)
    /\ IF DestsFor(SRC) = <<>>
       THEN d_idx' = 0 /\ HandlerReturns
       ELSE d_idx' = 1 /\ pc' = "send_single"
    /\ UNCHANGED <<config, prev, caption, albumLocals, calls, nfail>>

\* the dispatcher invokes on_new_message: lines 192-202, up to the loop
on_new_message(msg) ==
    /\ pc = "idle"
    /\ handler' = "on_new_message"
    /\ event' = [chat_id |-> SRC, messages |-> <<msg>>]
    /\ IF msg.grouped_id # None
       THEN /\ dests' = <<>>
            /\ d_idx' = 0
            /\ HandlerReturns
       ELSE /\ dests' = DestsFor(SRC)
            /\ IF DestsFor(SRC) = <<>>
               THEN d_idx' = 0 /\ HandlerReturns
               ELSE d_idx' = 1 /\ pc' = "send_single"
    /\ UNCHANGED <<config, prev, caption, albumLocals, calls, nfail>>

\* the send is started as a task of its own and the loop moves on without
\* awaiting it
_send_single_detached ==
    /\ pc = "send_single"
    /\ LET d == dests[d_idx]
           msg == event.messages[1]
           copy == copy_mode /\ ~forward_mode
       IN  Issue(IF copy THEN SendMessageCall(d, msg) ELSE ForwardMessagesCall(d, msg))
    /\ IF d_idx < Len(dests)
       THEN d_idx' = d_idx + 1 /\ pc' = "send_single"
       ELSE d_idx' = d_idx /\ HandlerReturns
    /\ UNCHANGED <<config, prev, handler, event, dests, caption, albumLocals, nfail>>

\* _send_single(d, msg, copy=copy_mode and not forward_mode), up to its await
_send_single ==
    /\ pc = "send_single"
    /\ LET d == dests[d_idx]
           msg == event.messages[1]
           copy == copy_mode /\ ~forward_mode
       IN  Issue(IF copy THEN SendMessageCall(d, msg) ELSE ForwardMessagesCall(d, msg))
    /\ pc' = "await_single"
    /\ UNCHANGED <<config, prev, handler, event, dests, d_idx, caption, albumLocals, nfail>>

\* a raising send leaves on_new_message: no try/except around _send_single
SingleReturns_raise(res) ==
    /\ pc = "await_single"
    /\ Returns(res)
    /\ IF res = "ok" /\ d_idx < Len(dests)
       THEN d_idx' = d_idx + 1 /\ pc' = "send_single"
       ELSE d_idx' = d_idx /\ HandlerReturns
    /\ UNCHANGED <<config, prev, handler, event, dests, caption, albumLocals>>

\* the call of _send_single returns or raises; either way the loop goes on
SingleReturns(res) ==
    /\ pc = "await_single"
    /\ Returns(res)
    /\ IF Escapes("single", res)
       THEN d_idx' = d_idx /\ HandlerRaises
       ELSE IF d_idx < Len(dests)
            THEN d_idx' = d_idx + 1 /\ pc' = "send_single"
            ELSE d_idx' = d_idx /\ HandlerReturns
    /\ UNCHANGED <<config, prev, handler, event, dests, caption, albumLocals>>

\* ----------------------------------------------------------------- on_album
\* the dispatcher invokes on_album: lines 213-222, up to the loop
on_album(items) ==
    /\ pc = "idle"
    /\ handler' = "on_album"
    /\ event' = [chat_id |-> SRC, messages |-> items]
    /\ caption' = FirstText(items)
    /\ dests' = DestsFor(SRC)
    /\ IF DestsFor(SRC) = <<>>
       THEN d_idx' = 0 /\ HandlerReturns
       ELSE d_idx' = 1 /\ pc' = "album_try"
    /\ UNCHANGED <<config, prev, albumLocals, calls, nfail>>

\* `for d in dests` moves on to the next destination, or the handler returns
NextDest ==
    /\ IF d_idx < Len(dests)
       THEN d_idx' = d_idx + 1 /\ pc' = "album_try"
       ELSE d_idx' = d_idx /\ HandlerReturns
    /\ ResetAlbumLocals

\* the first bucket at or after position b that has files to send
RECURSIVE NextBucket(_, _)
NextBucket(bs, b) ==
    IF b > Len(bs)
    THEN Len(bs) + 1
    ELSE IF FilesOf(bs[b].bucket) # <<>> THEN b ELSE NextBucket(bs, b + 1)

\* `for kind, bucket in buckets.items()` reaches its next bucket with files
\* (cap = caption, i = 0), or _send_album_copy returns
EnterBucket(bs, b) ==
    LET nb == NextBucket(bs, b)
    IN  IF nb <= Len(bs)
        THEN /\ buckets' = bs
             /\ b_idx' = nb
             /\ cap' = caption
             /\ i' = 0
             /\ idx' = 0
             /\ pc' = "send_batch"
             /\ d_idx' = d_idx
        ELSE NextDest

\* the mode test with its operands exchanged: copy_mode and not forward_mode
album_try_swapped ==
    /\ pc = "album_try"
    /\ IF copy_mode /\ ~forward_mode
       THEN /\ Issue(ForwardAlbumCall(dests[d_idx], event.messages))
            /\ pc' = "await_forward"
            /\ UNCHANGED <<d_idx, albumLocals>>
       ELSE /\ EnterBucket(MakeBuckets(event.messages), 1)
            /\ UNCHANGED calls
    /\ UNCHANGED <<config, prev, handler, event, dests, caption, nfail>>

\* the try body of on_album for dests[d_idx], up to its first await
album_try ==
    /\ pc = "album_try"
    /\ IF forward_mode /\ ~copy_mode
       THEN /\ Issue(ForwardAlbumCall(dests[d_idx], event.messages))
            /\ pc' = "await_forward"
            /\ UNCHANGED <<d_idx, albumLocals>>
       ELSE /\ EnterBucket(MakeBuckets(event.messages), 1)
            /\ UNCHANGED calls
    /\ UNCHANGED <<config, prev, handler, event, dests, caption, nfail>>

\* _send_album_copy: part = files[i : i + 10]; await client.send_file(...)
_send_album_copy ==
    /\ pc = "send_batch"
    /\ LET files == FilesOf(buckets[b_idx].bucket)
       IN  Issue(SendBatchCall(dests[d_idx], Slice(files, i), cap))
    /\ pc' = "await_batch"
    /\ UNCHANGED <<config, prev, handler, event, dests, d_idx, caption, albumLocals, nfail>>

\* except Exception in on_album: cap = caption, then the per-item loop
EnterFallback ==
    IF event.messages = <<>>
    THEN NextDest
    ELSE /\ buckets' = <<>>
         /\ b_idx' = 0
         /\ i' = 0
         /\ cap' = caption
         /\ idx' = 0
         /\ pc' = "send_item"
         /\ d_idx' = d_idx

\* a raising batch upload is logged and the destination given up: no fallback
BatchReturns_nofallback(res) ==
    /\ pc = "await_batch"
    /\ Returns(res)
    /\ IF res = "ok"
       THEN IF i + BatchSize < Len(FilesOf(buckets[b_idx].bucket))
            THEN /\ i' = i + BatchSize
                 /\ cap' = None
                 /\ pc' = "send_batch"
                 /\ UNCHANGED <<buckets, b_idx, idx, d_idx>>
            ELSE EnterBucket(buckets, b_idx + 1)
       ELSE NextDest
    /\ UNCHANGED <<config, prev, handler, event, dests, caption>>

\* send_file of a batch returns (cap = None; i += 10) or raises
BatchReturns(res) ==
    /\ pc = "await_batch"
    /\ Returns(res)
    /\ IF res = "ok"
       THEN IF i + BatchSize < Len(FilesOf(buckets[b_idx].bucket))
            THEN /\ i' = i + BatchSize
                 /\ cap' = None
                 /\ pc' = "send_batch"
                 /\ UNCHANGED <<buckets, b_idx, idx, d_idx>>
            ELSE EnterBucket(buckets, b_idx + 1)
       ELSE IF Escapes("batch", res)
            THEN HandlerRaises /\ UNCHANGED <<albumLocals, d_idx>>
            ELSE EnterFallback
    /\ UNCHANGED <<config, prev, handler, event, dests, caption>>

\* event.forward_to(d) returns or raises
ForwardReturns(res) ==
    /\ pc = "await_forward"
    /\ Returns(res)
    /\ IF res = "ok"
       THEN NextDest
       ELSE IF Escapes("forward", res)
            THEN HandlerRaises /\ UNCHANGED <<albumLocals, d_idx>>
            ELSE EnterFallback
    /\ UNCHANGED <<config, prev, handler, event, dests, caption>>

\* every individual send is given the album's caption
fallback_send_captioned ==
    /\ pc = "send_item"
    /\ Issue(SendItemCall(dests[d_idx], event.messages[idx + 1], caption))
    /\ pc' = "await_item"
    /\ UNCHANGED <<config, prev, handler, event, dests, d_idx, caption, albumLocals, nfail>>

\* fallback: await client.send_file(d, m.media, caption=cap if idx == 0 else None)
fallback_send ==
    /\ pc = "send_item"
    /\ Issue(SendItemCall(dests[d_idx], event.messages[idx + 1], IF idx = 0 THEN cap ELSE None))
    /\ pc' = "await_item"
    /\ UNCHANGED <<config, prev, handler, event, dests, d_idx, caption, albumLocals, nfail>>

\* an individual send that raises is issued again
ItemReturns_retry(res) ==
    /\ pc = "await_item"
    /\ Returns(res)
    /\ IF res = "error"
       THEN pc' = "send_item" /\ UNCHANGED <<albumLocals, d_idx>>
       ELSE IF idx + 1 < Len(event.messages)
            THEN /\ idx' = idx + 1
                 /\ cap' = None
                 /\ pc' = "send_item"
                 /\ UNCHANGED <<buckets, b_idx, i, d_idx>>
            ELSE NextDest
    /\ UNCHANGED <<config, prev, handler, event, dests, caption>>

\* the fallback loop left at the first send that raises
ItemReturns_abort(res) ==
    /\ pc = "await_item"
    /\ Returns(res)
    /\ IF res = "ok" /\ idx + 1 < Len(event.messages)
       THEN /\ idx' = idx + 1
            /\ cap' = None
            /\ pc' = "send_item"
            /\ UNCHANGED <<buckets, b_idx, i, d_idx>>
       ELSE NextDest
    /\ UNCHANGED <<config, prev, handler, event, dests, caption>>

\* the fallback send returns or raises (logged); cap = None; next item
ItemReturns(res) ==
    /\ pc = "await_item"
    /\ Returns(res)
    /\ IF Escapes("item", res)
       THEN HandlerRaises /\ UNCHANGED <<albumLocals, d_idx>>
       ELSE IF idx + 1 < Len(event.messages)
            THEN /\ idx' = idx + 1
                 /\ cap' = None
                 /\ pc' = "send_item"
                 /\ UNCHANGED <<buckets, b_idx, i, d_idx>>
            ELSE NextDest
    /\ UNCHANGED <<config, prev, handler, event, dests, caption>>

\* ------------------------------------------------------------- dispatcher
\* run_until_disconnected: the finished invocation's frame is discarded and
\* the client waits for the next event
dispatch ==
    /\ pc \in {"done", "raised"}
    /\ pc' = "idle"
    /\ handler' = "none"
    /\ event' = NoEvent
    /\ dests' = <<>>
    /\ d_idx' = 0
    /\ caption' = None
    /\ calls' = <<>>
    /\ nfail' = 0
    /\ UNCHANGED <<config, prev, albumLocals>>

\* ------------------------------------------------------------ specification
Next ==
    \/ dispatch
    \/ \E msg \in SingleMessages : on_new_message(msg)
    \/ _send_single
    \/ \E res \in Outcomes : SingleReturns(res)
    \/ \E items \in Albums : on_album(items)
    \/ album_try
    \/ _send_album_copy
    \/ \E res \in Outcomes : BatchReturns(res)
    \/ \E res \in Outcomes : ForwardReturns(res)
    \/ fallback_send
    \/ \E res \in Outcomes : ItemReturns(res)

Spec == Init /\ [][Next]_vars

\* ----------------------------------------------------------------- replay
\* A failure-free invocation is kept, and the transport delivers the same
\* event once more; the second invocation meets failures freely.
snapshot ==
    /\ pc = "done"
    /\ nfail = 0
    /\ prev = NoSnapshot
    /\ dests # <<>>
    /\ prev' = [handler |-> handler, event |-> event, calls |-> calls]
    /\ pc' = "idle"
    /\ handler' = "none"
    /\ event' = NoEvent
    /\ dests' = <<>>
    /\ d_idx' = 0
    /\ caption' = None
    /\ calls' = <<>>
    /\ nfail' = 0
    /\ UNCHANGED <<config, albumLocals>>

redeliver ==
    /\ prev # NoSnapshot
    /\ IF prev.handler = "on_album"
       THEN on_album(prev.event.messages)
       ELSE on_new_message(prev.event.messages[1])

NextReplay ==
    \/ dispatch
    \/ snapshot
    \/ redeliver
    \/ \E msg \in SingleMessages : prev = NoSnapshot /\ on_new_message(msg)
    \/ _send_single
    \/ \E res \in Outcomes : SingleReturns(res)
    \/ \E items \in Albums : prev = NoSnapshot /\ on_album(items)
    \/ album_try
    \/ _send_album_copy
    \/ \E res \in Outcomes : BatchReturns(res)
    \/ \E res \in Outcomes : ForwardReturns(res)
    \/ fallback_send
    \/ \E res \in Outcomes : ItemReturns(res)

SpecReplay == Init /\ [][NextReplay]_vars

\* asyncio runs an invoked handler on: every awaited call returns and the
\* coroutine is resumed; the arrival of events is not forced
HandlerStep ==
    \/ dispatch
    \/ _send_single
    \/ \E res \in Outcomes : SingleReturns(res)
    \/ album_try
    \/ _send_album_copy
    \/ \E res \in Outcomes : BatchReturns(res)
    \/ \E res \in Outcomes : ForwardReturns(res)
    \/ fallback_send
    \/ \E res \in Outcomes : ItemReturns(res)

FairSpec == Spec /\ WF_vars(HandlerStep)

\* ------------------------------------------------------------ a slow peer
\* the handler is suspended in an await of a call issued to d
Awaiting(d) ==
    /\ pc \in {"await_single", "await_batch", "await_forward", "await_item"}
    /\ dests[d_idx] = d

\* the destination whose calls may take arbitrarily long, or never return
SlowDest == DestA

\* asyncio runs the handler on as in HandlerStep, but nothing makes a call
\* issued to SlowDest return
PromptStep == ~Awaiting(SlowDest) /\ HandlerStep

HangSpec == Spec /\ WF_vars(PromptStep)

\* ------------------------------------------------------ reading the calls
Range(seq) == {seq[k] : k \in 1..Len(seq)}

IsPrefix(s, t) == Len(s) <= Len(t) /\ \A k \in 1..Len(s) : s[k] = t[k]

RECURSIVE Concat(_)
Concat(ss) == IF ss = <<>> THEN <<>> ELSE Head(ss) \o Concat(Tail(ss))

\* a batch upload: send_file given a list of files
IsBatchCall(c) == c.op = "send_file" /\ c.is_list

\* an individual send of one album item: send_file given one media object
IsItemCall(c) == c.op = "send_file" /\ ~c.is_list

IsForwardCall(c) == c.op \in {"forward_messages", "forward_to"}

CallsTo(d, cs) == LET To(c) == c.dest = d IN SelectSeq(cs, To)

BatchCallsTo(d) == SelectSeq(CallsTo(d, calls), IsBatchCall)

ItemCallsTo(d) == SelectSeq(CallsTo(d, calls), IsItemCall)

\* the batch upload or the album forward to d has raised
BatchFailed(d) ==
    \E c \in Range(CallsTo(d, calls)) :
        (IsBatchCall(c) \/ c.op = "forward_to") /\ c.result = "error"

\* `for d in dests` is past d
Finished(d) == pc = "done" \/ \E p \in 1..Len(dests) : dests[p] = d /\ p < d_idx

InAlbum == handler = "on_album"

InSingle == handler = "on_new_message"

Items == event.messages

\* --------------------------------------------------------------------- C1
\* C1 (deduplication): a single-message event whose message carries a group
\* identifier makes on_new_message issue no transport call at all, and every
\* call on_new_message does issue carries a message that belongs to no group.
C1_Dedup ==
    InSingle =>
        /\ Items[1].grouped_id # None => calls = <<>>
        /\ \A c \in Range(calls) :
              c.msg_ids = <<Items[1].id>> /\ Items[1].grouped_id = None

\* a grouped single was handled with destinations configured
C1_Witness ==
    /\ InSingle
    /\ pc = "done"
    /\ Items[1].grouped_id # None
    /\ DestsFor(SRC) # <<>>

\* --------------------------------------------------------------------- C2
\* C2 (caption placement, copy mode): for a captioned album and a
\* destination, the batch uploads that carry the caption are exactly the
\* first batch upload issued to that destination; no later chunk, the first
\* chunk of a later bucket included, carries it.
C2_CaptionOnlyOnFirstBatch ==
    (InAlbum /\ copy_mode /\ caption # None) =>
        \A d \in Range(dests) :
            \A k \in 1..Len(BatchCallsTo(d)) :
                (BatchCallsTo(d)[k].caption # None) <=> (k = 1)

\* --------------------------------------------------------------------- C3
\* C3 (both modes enabled): with copy and forward both true every delivery
\* is a re-upload; no native forward of a message or of an album is issued.
C3_CopyTakesPrecedence ==
    (copy_mode /\ forward_mode) => \A c \in Range(calls) : ~IsForwardCall(c)

\* --------------------------------------------------------------------- C4
\* C4 (inert configuration): with neither copy nor forward enabled no
\* transport call is ever issued.
C4_InertConfiguration == (~copy_mode /\ ~forward_mode) => calls = <<>>

\* --------------------------------------------------------------------- C5
\* C5 (fallback completeness): once the batch upload or the album forward to
\* a destination has raised, the individual sends to that destination follow
\* the album's items in original order, one send per item, whatever the
\* outcome of each send; when the loop is past the destination every item
\* has been attempted exactly once.
ExpectedItemSends(d) ==
    [k \in 1..Len(Items) |-> [file |-> <<Items[k].media>>, msg_ids |-> <<Items[k].id>>]]

ItemSends(d) ==
    [k \in 1..Len(ItemCallsTo(d)) |->
        [file |-> ItemCallsTo(d)[k].file, msg_ids |-> ItemCallsTo(d)[k].msg_ids]]

C5_FallbackCompleteness ==
    InAlbum =>
        \A d \in Range(dests) :
            BatchFailed(d) =>
                /\ IsPrefix(ItemSends(d), ExpectedItemSends(d))
                /\ Finished(d) => ItemSends(d) = ExpectedItemSends(d)
                /\ pc = "send_item" /\ dests[d_idx] = d => Len(ItemSends(d)) = idx

\* a fallback pass over several items ended although an item before the
\* last one had raised
C5_Witness ==
    /\ InAlbum
    /\ pc = "done"
    /\ BatchFailed(DestA)
    /\ Len(Items) >= 2
    /\ ItemCallsTo(DestA)[1].result = "error"
    /\ Len(ItemCallsTo(DestA)) = Len(Items)

\* --------------------------------------------------------------------- C6
\* C6 (destination independence): when an event already handled without any
\* failure is handled again with failures, a destination none of whose own
\* calls raises is given the same calls, with the same arguments and the
\* same outcome, as in the failure-free invocation, wherever the failing
\* destinations stand in the routing entry.
Args(cs) == [k \in 1..Len(cs) |-> [cs[k] EXCEPT !.result = "ok"]]

Unharmed(a) == \A c \in Range(CallsTo(a, calls)) : c.result # "error"

Replaying == prev # NoSnapshot /\ handler = prev.handler /\ event = prev.event

C6_DestinationIndependence ==
    Replaying =>
        \A a \in Range(dests) :
            Unharmed(a) =>
                /\ IsPrefix(Args(CallsTo(a, calls)), Args(CallsTo(a, prev.calls)))
                /\ Finished(a) => CallsTo(a, calls) = CallsTo(a, prev.calls)

\* an album was handled again; the first destination's calls raised, the
\* second destination's did not
C6_Witness ==
    /\ Replaying
    /\ InAlbum
    /\ pc = "done"
    /\ dests = <<DestA, DestB>>
    /\ ~Unharmed(DestA)
    /\ Unharmed(DestB)
    /\ CallsTo(DestB, calls) # <<>>

\* --------------------------------------------------------------------- C7
\* C7 (at-least-once attempt): once on_album has been invoked for an album
\* of a configured source, the invocation ends with every media-bearing item
\* included, for every destination, in a call issued to that destination:
\* the album forward, a batch upload or an individual send.
Attempted(d, m) ==
    \E c \in Range(CallsTo(d, calls)) :
        \/ c.op = "forward_to" /\ m.id \in Range(c.msg_ids)
        \/ IsBatchCall(c) /\ m.media \in Range(c.file)
        \/ IsItemCall(c) /\ c.file = <<m.media>>

AllMediaAttempted ==
    \A d \in Range(dests) : \A m \in Range(Items) : HasMedia(m) => Attempted(d, m)

AlbumInvoked == InAlbum /\ pc = "album_try" /\ d_idx = 1

C7_AtLeastOnceAttempt == AlbumInvoked ~> (InAlbum /\ pc = "done" /\ AllMediaAttempted)

\* an invocation ended in which an item with media was in no batch upload
\* and was attempted by the fallback
C7_Witness ==
    /\ InAlbum
    /\ pc = "done"
    /\ AllMediaAttempted
    /\ \E m \in Range(Items) :
          /\ HasMedia(m)
          /\ \A c \in Range(BatchCallsTo(DestA)) : m.media \notin Range(c.file)
          /\ BatchFailed(DestA)

\* --------------------------------------------------------------------- C8
\* C8 (batch size, order): every batch upload carries between 1 and 10
\* files; the batches of one media class sent to a destination, concatenated
\* in sending order, run along that class's items in original order, and
\* reproduce them exactly once the copy to the destination has gone through.
Classes == {"photo", "video", "document"}

ClassOf(media) ==
    IF media.tag = "photo"
    THEN "photo"
    ELSE IF media.tag = "document" /\ StartsWith(media.mime_type, VideoPrefix)
         THEN "video"
         ELSE "document"

MediaOfClass(cl) ==
    LET Is(m) == HasMedia(m) /\ ClassOf(m.media) = cl
        ms == SelectSeq(Items, Is)
    IN  [k \in 1..Len(ms) |-> ms[k].media]

SentOfClass(d, cl) ==
    LET Is(c) == c.file # <<>> /\ ClassOf(c.file[1]) = cl
        bs == SelectSeq(BatchCallsTo(d), Is)
    IN  Concat([k \in 1..Len(bs) |-> bs[k].file])

CopyWentThrough(d) ==
    /\ Finished(d)
    /\ ~(forward_mode /\ ~copy_mode)
    /\ \A c \in Range(CallsTo(d, calls)) : c.result = "ok"

C8_BatchSizeAndOrder ==
    InAlbum =>
        \A d \in Range(dests) :
            /\ \A c \in Range(BatchCallsTo(d)) : Len(c.file) \in 1..BatchSize
            /\ \A cl \in Classes :
                  /\ IsPrefix(SentOfClass(d, cl), MediaOfClass(cl))
                  /\ CopyWentThrough(d) => SentOfClass(d, cl) = MediaOfClass(cl)

\* twelve photos went out as a batch of ten and a batch of two
C8_Witness ==
    /\ InAlbum
    /\ pc = "done"
    /\ Len(Items) = 12
    /\ CopyWentThrough(DestA)
    /\ Len(BatchCallsTo(DestA)) = 2
    /\ Len(BatchCallsTo(DestA)[1].file) = 10
    /\ Len(BatchCallsTo(DestA)[2].file) = 2

\* --------------------------------------------------------------------- C9
\* C9 (type isolation): the files of a batch upload are all of one media
\* class: photo for a photo attachment, else video for a document whose
\* content type begins with "video/", else document.
C9_TypeIsolation ==
    \A c \in Range(calls) :
        IsBatchCall(c) =>
            /\ c.file # <<>>
            /\ \A f, g \in Range(c.file) : ClassOf(f) = ClassOf(g)

\* an album of two photos and a document went out as two batches
C9_Witness ==
    /\ InAlbum
    /\ pc = "done"
    /\ Len(BatchCallsTo(DestA)) = 2
    /\ Len(BatchCallsTo(DestA)[1].file) = 2
    /\ ClassOf(BatchCallsTo(DestA)[1].file[1]) # ClassOf(BatchCallsTo(DestA)[2].file[1])

\* -------------------------------------------------------------------- C10
\* C10 (fallback caption): in the per-item fallback of a captioned album the
\* caption is carried by the first individual send that succeeds, and by no
\* other send that succeeds.
C10_CaptionOnFirstSuccess ==
    (InAlbum /\ caption # None) =>
        \A d \in Range(dests) :
            \A k \in 1..Len(ItemCallsTo(d)) :
                LET c == ItemCallsTo(d)[k]
                    first == \A j \in 1..(k - 1) : ItemCallsTo(d)[j].result # "ok"
                IN  c.result = "ok" => ((c.caption = caption) <=> first)

\* -------------------------------------------------------------------- C11
\* C11 (error containment): whatever calls raise, no exception leaves
\* on_new_message or on_album; an invocation that has returned has caught
\* every raising call, and the dispatcher can take the next event.
C11_ErrorContainment ==
    /\ pc # "raised"
    /\ pc = "done" => ENABLED dispatch

\* an album invocation returned after its forward or batch upload and an
\* individual send of the fallback had both raised
C11_Witness ==
    /\ InAlbum
    /\ pc = "done"
    /\ BatchFailed(DestA)
    /\ \E c \in Range(ItemCallsTo(DestA)) : c.result = "error"

\* -------------------------------------------------------------------- C12
\* C12 (standalone copy delivery): with copy enabled, a message that belongs
\* to no group reaches each destination through exactly one send_message
\* call that carries the message's text and its media, with the link preview
\* enabled exactly when the message has no media.
C12_StandaloneCopyDelivery ==
    (InSingle /\ copy_mode) =>
        \A d \in Range(dests) :
            LET cs == CallsTo(d, calls) IN
            /\ Len(cs) <= 1
            /\ Finished(d) => Len(cs) = 1
            /\ \A c \in Range(cs) :
                   /\ c.op = "send_message"
                   /\ c.message = Items[1].message
                   /\ c.file = <<Items[1].media>>
                   /\ c.link_preview = (Items[1].media = NoMedia)

\* the same statement where forward is disabled as well: the copy branch of
\* _send_single is the one taken
C12_EffectiveCopy == (~forward_mode) => C12_StandaloneCopyDelivery

\* -------------------------------------------------------------------- C13
\* an invocation has something to deliver to its destinations: a standalone
\* message, an album to forward, or an album with a media item to upload
Deliverable ==
    \/ InSingle
    \/ InAlbum /\ forward_mode /\ ~copy_mode
    \/ InAlbum /\ \E m \in Range(Items) : HasMedia(m)

Invoked == pc \in {"send_single", "album_try"} /\ d_idx = 1 /\ Deliverable

\* position of destination d in the routed list
PosOf(d) == CHOOSE p \in 1..Len(dests) : dests[p] = d

\* C13 (latency isolation): when the calls issued to one destination take
\* arbitrarily long or never return, a delivery call for every other routed
\* destination is still eventually issued.
C13_LatencyIsolation ==
    \A M \in {DestA, DestB} \ {SlowDest} :
        (Invoked /\ M \in Range(dests)) ~> (CallsTo(M, calls) # <<>>)

\* C13 (as the code has it): destinations are served one after another in
\* routing order. At most the latest call is unreturned, a call for a
\* destination is issued only once every call for the destinations before it
\* has returned or raised, and a destination routed after the slow one gets
\* its delivery call unless the handler stays suspended in a call to the slow
\* one for ever.
OneAtATime ==
    /\ \A k \in 1..Len(calls) : calls[k].result = "pending" => k = Len(calls)
    /\ \A k \in 1..Len(calls) : \A l \in k..Len(calls) :
           PosOf(calls[k].dest) <= PosOf(calls[l].dest)

C13_SequentialDestinations ==
    /\ []OneAtATime
    /\ \A M \in {DestA, DestB} \ {SlowDest} :
           []((Invoked /\ M \in Range(dests)) =>
                  (<>(CallsTo(M, calls) # <<>>) \/ <>[]Awaiting(SlowDest)))

\* the call to the second destination is in flight after a call to the first
\* one has raised
C13_Witness ==
    /\ dests = <<DestA, DestB>>
    /\ Awaiting(DestB)
    /\ \E c \in Range(CallsTo(DestA, calls)) : c.result = "error"

\* -------------------------------------------------------------------- C14
\* the media classes present in the album, in the order in which each is
\* first seen among the items
FirstSeen(cl) ==
    CHOOSE k \in 1..Len(Items) :
        /\ HasMedia(Items[k]) /\ ClassOf(Items[k].media) = cl
        /\ \A j \in 1..(k - 1) : ~(HasMedia(Items[j]) /\ ClassOf(Items[j].media) = cl)

PresentClasses == {cl \in Classes : MediaOfClass(cl) # <<>>}

ClassAt(r) ==
    CHOOSE cl \in PresentClasses :
        Cardinality({c2 \in PresentClasses : FirstSeen(c2) < FirstSeen(cl)}) = r - 1

\* a class's files cut into consecutive chunks of at most BatchSize
ChunksOf(fs) ==
    [j \in 1..((Len(fs) + BatchSize - 1) \div BatchSize) |->
        SubSeq(fs, BatchSize * (j - 1) + 1,
               IF BatchSize * j < Len(fs) THEN BatchSize * j ELSE Len(fs))]

BatchingOrder ==
    Concat([r \in 1..Cardinality(PresentClasses) |-> ChunksOf(MediaOfClass(ClassAt(r)))])

\* C14 (batch ordering per destination): the batch uploads issued to a
\* destination follow the batching order, classes in first-seen order and
\* the chunks of a class by increasing index, without skipping any; a batch
\* is issued only when every batch before it has returned successfully, so
\* none follows a batch that raised or has not returned.
C14_BatchOrdering ==
    (InAlbum /\ calls # <<>>) =>
        \A order \in {BatchingOrder} :
            \A d \in Range(dests) :
                \A bs \in {BatchCallsTo(d)} :
                    /\ Len(bs) <= Len(order)
                    /\ \A k \in 1..Len(bs) : bs[k].file = order[k]
                    /\ \A k \in 1..(Len(bs) - 1) : bs[k].result = "ok"

\* a document seen before a photo: the document batch went out first, the
\* photo batch after it had returned, and the photo batch raised
C14_Witness ==
    /\ InAlbum
    /\ pc = "done"
    /\ Len(BatchCallsTo(DestA)) = 2
    /\ ClassOf(BatchCallsTo(DestA)[1].file[1]) = "document"
    /\ ClassOf(BatchCallsTo(DestA)[2].file[1]) = "photo"
    /\ BatchCallsTo(DestA)[2].result = "error"

\* -------------------------------------------------------------------- C15
\* the first attempt for a destination: a batch upload or the album forward
IsFirstAttempt(c) == IsBatchCall(c) \/ c.op = "forward_to"

\* the calls of an album invocation to d: first attempts, and after the one
\* first attempt that raised only individual sends, one per item at most
AlbumPassShape(d) ==
    \A cs \in {CallsTo(d, calls)} : \A its \in {SelectSeq(cs, IsItemCall)} :
        /\ \A k \in 1..(Len(cs) - 1) :
               /\ IsItemCall(cs[k]) => IsItemCall(cs[k + 1])
               /\ (IsFirstAttempt(cs[k]) /\ cs[k].result = "error") => IsItemCall(cs[k + 1])
        /\ its # <<>> => BatchFailed(d)
        /\ Len(its) <= Len(Items)
        /\ \A k, l \in 1..Len(its) : its[k].msg_ids = its[l].msg_ids => k = l
        /\ Finished(d) =>
               \/ its = <<>> /\ \A c \in Range(cs) : c.result = "ok"
               \/ BatchFailed(d) /\ Len(its) = Len(Items)

SinglePassShape(d) ==
    /\ Len(CallsTo(d, calls)) <= 1
    /\ Finished(d) => Len(CallsTo(d, calls)) = 1

\* once the loop is past a destination, the calls issued to it stay as they
\* are for the rest of the invocation
NoCallAfterTerminal ==
    (calls' # calls /\ pc' # "idle") =>
        \A d \in Range(dests) : Finished(d) => CallsTo(d, calls') = CallsTo(d, calls)

\* C15 (no retry beyond one fallback pass): for a group and a destination
\* the first attempt either goes through or raises once and is followed by
\* one pass of individual sends, after which (as after a first attempt that
\* went through) no call is issued for the pair; a standalone message gets
\* exactly one call per destination; and every invocation returns, given
\* that the calls it awaits return.
C15_NoRetry ==
    /\ [](InAlbum => \A d \in Range(dests) : AlbumPassShape(d))
    /\ [](InSingle => \A d \in Range(dests) : SinglePassShape(d))
    /\ [][NoCallAfterTerminal]_vars
    /\ (pc \notin {"idle", "done"}) ~> (pc = "done")

\* the first destination ended after a failed first attempt and a full pass
\* of individual sends, one of which raised; the second one was delivered by
\* its first attempt alone
C15_Witness ==
    /\ InAlbum
    /\ pc = "done"
    /\ dests = <<DestA, DestB>>
    /\ BatchFailed(DestA)
    /\ Len(ItemCallsTo(DestA)) = Len(Items)
    /\ \E c \in Range(ItemCallsTo(DestA)) : c.result = "error"
    /\ CallsTo(DestB, calls) # <<>>
    /\ \A c \in Range(CallsTo(DestB, calls)) : IsFirstAttempt(c) /\ c.result = "ok"

\* -------------------------------------------------------------------- C16
\* C16 (text-only group members): an item of a group that has text and no
\* media is never sent as an item of its own: it is in no batch upload and
\* no individual send of the fallback is issued for it.
C16_TextOnlyNeverSent ==
    InAlbum =>
        \A c \in Range(calls) :
            /\ IsBatchCall(c) => NoMedia \notin Range(c.file)
            /\ IsItemCall(c) =>
                   \A m \in Range(Items) : c.msg_ids = <<m.id>> => HasMedia(m)

\* -------------------------------------------------------------------- C17
\* C17 (routing table invariant): in the table built from the configuration
\* every source key present has a non-empty destination sequence.
C17_NonEmptyDestinations == \A h \in DOMAIN from_to_ids : from_to_ids[h] # <<>>

\* the chat a configuration entry's source identifier names
KeyOf(k) == _resolve_chat_id(from_to_conf[k].src)

\* the last configuration entry whose source identifier names chat h
LastFor(h) ==
    CHOOSE k \in 1..Len(from_to_conf) :
        KeyOf(k) = h /\ \A j \in (k + 1)..Len(from_to_conf) : KeyOf(j) # h

TableFromConf ==
    /\ DOMAIN from_to_ids = {KeyOf(k) : k \in 1..Len(from_to_conf)}
    /\ DOMAIN from_to_ids = {SRC}
    /\ from_to_ids[SRC] \in {<<>>, <<DestA>>, <<DestA, DestB>>}
    /\ \A h \in DOMAIN from_to_ids :
           LET entry == from_to_conf[LastFor(h)] IN
           /\ Len(from_to_ids[h]) = Len(entry.dests)
           /\ \A k \in 1..Len(entry.dests) :
                  from_to_ids[h][k] = _resolve_chat_id(entry.dests[k])

\* C17 (as the code has it): the keys of the routing table are the chats the
\* configured source identifiers name; a key's destination sequence is the
\* resolved destination list of the last configuration entry naming that
\* chat, so it is empty when that list is empty and an earlier entry for the
\* same chat is dropped; no step of a handler modifies the table.
C17_RoutingTableFromConf ==
    /\ []TableFromConf
    /\ [][from_to_ids' = from_to_ids /\ from_to_conf' = from_to_conf]_vars

\* a message was delivered along the destinations of the second of two
\* entries whose source identifiers name the same chat
C17_Witness ==
    /\ Len(from_to_conf) = 2
    /\ KeyOf(1) = KeyOf(2)
    /\ from_to_ids[SRC] = <<DestA, DestB>>
    /\ pc = "done"
    /\ CallsTo(DestB, calls) # <<>>

\* -------------------------------------------------------------------- C18
\* C18 (fallback caption multiplicity): among the individual sends of the
\* fallback to a destination at most one carries the caption, and it is the
\* send of the album's first item, the first one attempted; every other send
\* carries none, whatever the outcome of the sends before it.
C18_FallbackCaptionOnFirstItem ==
    InAlbum =>
        \A d \in Range(dests) :
            LET its == ItemCallsTo(d) IN
            /\ Cardinality({k \in 1..Len(its) : its[k].caption # None}) <= 1
            /\ \A k \in 1..Len(its) :
                   IF k = 1
                   THEN its[k].msg_ids = <<Items[1].id>> /\ its[k].caption = caption
                   ELSE its[k].caption = None

\* the send of the first item carried the caption and raised; the send of
\* the second item went through without a caption
C18_Witness ==
    /\ InAlbum
    /\ caption # None
    /\ Len(ItemCallsTo(DestA)) >= 2
    /\ ItemCallsTo(DestA)[1].caption = caption
    /\ ItemCallsTo(DestA)[1].result = "error"
    /\ ItemCallsTo(DestA)[2].caption = None
    /\ ItemCallsTo(DestA)[2].result = "ok"

\* -------------------------------------------------------------------- C19
\* C19 (group forward mode): with forward enabled and copy disabled, the
\* calls an album invocation issues to a destination begin with one
\* forward_to of the whole group, which is the only forward; no batch upload
\* is issued; and individual sends follow only when that forward raised.
C19_GroupForward ==
    (InAlbum /\ forward_mode /\ ~copy_mode) =>
        \A d \in Range(dests) :
            LET cs == CallsTo(d, calls) IN
            /\ BatchCallsTo(d) = <<>>
            /\ Finished(d) => cs # <<>>
            /\ cs # <<>> =>
                   /\ cs[1].op = "forward_to"
                   /\ cs[1].msg_ids = [k \in 1..Len(Items) |-> Items[k].id]
                   /\ \A k \in 2..Len(cs) : IsItemCall(cs[k])
                   /\ Len(cs) > 1 => cs[1].result = "error"

\* the forward to the first destination raised and was followed by the
\* individual sends; the forward to the second one went through and is the
\* only call issued to it
C19_Witness ==
    /\ InAlbum /\ forward_mode /\ ~copy_mode
    /\ pc = "done"
    /\ dests = <<DestA, DestB>>
    /\ Len(Items) = 2
    /\ CallsTo(DestA, calls)[1].result = "error"
    /\ Len(ItemCallsTo(DestA)) = 2
    /\ Len(CallsTo(DestB, calls)) = 1
    /\ CallsTo(DestB, calls)[1].op = "forward_to"
    /\ CallsTo(DestB, calls)[1].result = "ok"

\* -------------------------------------------------------------------- C20
\* the number of places item m's media takes in the batch uploads bs
TimesInBatches(bs, m) ==
    Cardinality({<<k, j>> \in (1..Len(bs)) \X (1..BatchSize) :
                    j <= Len(bs[k].file) /\ bs[k].file[j] = m.media})

\* the number of individual sends of item m among the individual sends its
TimesAlone(its, m) ==
    Cardinality({k \in 1..Len(its) : its[k].msg_ids = <<m.id>>})

\* C20 (bounded duplication): with copy enabled, a media item of an album is
\* in at most one batch upload to a destination and is sent individually at
\* most once, and only when a batch upload to that destination has raised,
\* so it is submitted at most twice; when every batch goes through it is
\* submitted exactly once; and the fallback sends every media item again,
\* those of batches that had gone through included.
C20_BoundedDuplication ==
    (InAlbum /\ copy_mode /\ calls # <<>>) =>
        \A d \in Range(dests) :
            \A bs \in {BatchCallsTo(d)} : \A its \in {ItemCallsTo(d)} :
                \A m \in Range(Items) :
                    HasMedia(m) =>
                        \A tb \in {TimesInBatches(bs, m)} : \A ta \in {TimesAlone(its, m)} :
                            /\ tb <= 1
                            /\ ta <= 1
                            /\ ta = 1 => BatchFailed(d)
                            /\ tb + ta <= 2
                            /\ CopyWentThrough(d) => tb = 1 /\ ta = 0
                            /\ (Finished(d) /\ BatchFailed(d)) => ta = 1

\* the batch with the first item went through, a later batch raised, and the
\* first item was sent once more by the fallback
C20_Witness ==
    /\ InAlbum /\ copy_mode
    /\ pc = "done"
    /\ Len(BatchCallsTo(DestA)) = 2
    /\ BatchCallsTo(DestA)[1].result = "ok"
    /\ BatchCallsTo(DestA)[2].result = "error"
    /\ HasMedia(Items[1])
    /\ TimesInBatches(BatchCallsTo(DestA), Items[1]) = 1
    /\ TimesAlone(ItemCallsTo(DestA), Items[1]) = 1

====
